---------------------------- MODULE Spec2Model ----------------------------
(***************************************************************************)
(* A model of builder.py: the CProjectBuilder that probes the build tools, *)
(* cleans its directories, clones a repository, detects the build system   *)
(* from marker files and drives CMake, Autotools or Make.                  *)
(*                                                                         *)
(* File names and URLs are sequences of one-character strings, so that     *)
(* split, replace, exists and glob are computed character by character.    *)
(* The outcome of every external command and every filesystem call is an   *)
(* input of the environment, drawn with \E in the action that issues it.   *)
(***************************************************************************)
EXTENDS Integers, Sequences, FiniteSets, TLC

VARIABLES
    pc,             \* position of the single control thread
    platform,       \* platform.system(): "Windows" or "Linux"
    fsCI,           \* TRUE when the filesystem looks names up case-insensitively
    github_url,     \* self.github_url
    branch,         \* self.branch ("None" when absent)
    project_name,   \* self.project_name
    source_dir,     \* self.source_dir, as path components under project_root
    build_dir,      \* self.build_dir
    output_dir,     \* self.output_dir
    msbuild_path,   \* self.msbuild_path
    build_system,   \* self.build_system
    missing_tools,  \* the list check_dependencies builds
    probe,          \* tool -> how its probe ended ("unprobed" before it)
    srcTree,        \* source_dir on disk: NoDir or Dir(set of entries)
    buildExists,    \* whether build_dir exists on disk
    outFiles,       \* output_dir on disk: NoDir or Dir(set of file names)
    cwd,            \* the process working directory
    origCwd,        \* the working directory the process was started in
    driver,         \* [kind, state] of the build driver that was entered
    steps,          \* history: orchestrator steps in the order they started
    invoked,        \* history: methods called and destructive operations done
    failed,         \* history: external commands that ended in failure
    exitStatus      \* << >> while running, then << status >> of the process

vars == << pc, platform, fsCI, github_url, branch, project_name, source_dir,
           build_dir, output_dir, msbuild_path, build_system, missing_tools,
           probe, srcTree, buildExists, outFiles, cwd, origCwd, driver, steps,
           invoked, failed, exitStatus >>

-----------------------------------------------------------------------------
(* Bounds of the model *)

\* largest number of chunks a repository name is put together from
MaxChunks == 3
\* largest number of top-level marker entries in a cloned tree
MaxTreeFiles == 3

-----------------------------------------------------------------------------
(* Values *)

None == "None"
\* a directory that does not exist, and a directory with the entries es
NoDir == [exists |-> FALSE, entries |-> {}]
Dir(es) == [exists |-> TRUE, entries |-> es]

\* class BuildSystem
CMAKE == "cmake"
MAKE == "make"
AUTOTOOLS == "autotools"
UNKNOWN == "unknown"

\* how subprocess.run(..., check=True) can end
RunOutcomes == {"ok", "CalledProcessError", "FileNotFoundError", "PermissionError"}

-----------------------------------------------------------------------------
(* Characters and names *)

UpperToLower ==
    [ A |-> "a", B |-> "b", C |-> "c", D |-> "d", E |-> "e", F |-> "f",
      G |-> "g", H |-> "h", I |-> "i", J |-> "j", K |-> "k", L |-> "l",
      M |-> "m", N |-> "n", O |-> "o", P |-> "p", Q |-> "q", R |-> "r",
      S |-> "s", T |-> "t", U |-> "u", V |-> "v", W |-> "w", X |-> "x",
      Y |-> "y", Z |-> "z" ]

LowerChar(c) == IF c \in DOMAIN UpperToLower THEN UpperToLower[c] ELSE c

Lower(s) == [i \in 1..Len(s) |-> LowerChar(s[i])]

n_CMakeLists == << "C","M","a","k","e","L","i","s","t","s",".","t","x","t" >>
n_configure_ac == << "c","o","n","f","i","g","u","r","e",".","a","c" >>
n_configure == << "c","o","n","f","i","g","u","r","e" >>
n_Makefile == << "M","a","k","e","f","i","l","e" >>
n_makefile == << "m","a","k","e","f","i","l","e" >>
n_makefile_unix == << "m","a","k","e","f","i","l","e",".","u","n","i","x" >>
n_MAKEFILE == << "M","A","K","E","F","I","L","E" >>
n_Makefile_am == << "M","a","k","e","f","i","l","e",".","a","m" >>
n_autogen == << "a","u","t","o","g","e","n",".","s","h" >>
n_main_c == << "m","a","i","n",".","c" >>
n_tool == << "t","o","o","l" >>
n_libfoo_so == << "l","i","b","f","o","o",".","s","o" >>
n_notes_txt == << "n","o","t","e","s",".","t","x","t" >>
n_objs == << "o","b","j","s" >>

-----------------------------------------------------------------------------
(* Pure functions of the code *)

c_slash == "/"
s_dotgit == << ".","g","i","t" >>

\* str.split('/')[-1]: what follows the last '/', the whole string without one
RECURSIVE LastSegment(_)
LastSegment(s) ==
    IF \A i \in 1..Len(s) : s[i] # c_slash THEN s
    ELSE LastSegment(Tail(s))

\* str.replace('.git', ''): every non-overlapping occurrence, left to right
RECURSIVE ReplaceDotGit(_)
ReplaceDotGit(s) ==
    IF Len(s) < Len(s_dotgit) THEN s
    ELSE IF SubSeq(s, 1, Len(s_dotgit)) = s_dotgit
         THEN ReplaceDotGit(SubSeq(s, Len(s_dotgit) + 1, Len(s)))
         ELSE << Head(s) >> \o ReplaceDotGit(Tail(s))

\* github_url.split('/')[-1].replace('.git', '')
ProjectName(url) == ReplaceDotGit(LastSegment(url))

\* self.project_root / sub / self.project_name
project_root == << "project_root" >>
ProjectDir(sub, name) == project_root \o << sub, name >>

\* fnmatch of a pattern with '*' wildcards against a name; ci folds case
RECURSIVE FnMatch(_, _, _)
FnMatch(pat, name, ci) ==
    IF pat = << >> THEN name = << >>
    ELSE IF Head(pat) = "*"
         THEN \/ FnMatch(Tail(pat), name, ci)
              \/ name # << >> /\ FnMatch(pat, Tail(name), ci)
         ELSE /\ name # << >>
              /\ IF ci THEN LowerChar(Head(pat)) = LowerChar(Head(name))
                        ELSE Head(pat) = Head(name)
              /\ FnMatch(Tail(pat), Tail(name), ci)

\* the top-level entries of a directory
TopLevel(tree) == {e \in tree.entries : e.dir = ""}

\* (self.source_dir / name).exists(): a lookup by the filesystem's own rule
Exists(tree, ci, name) ==
    /\ tree.exists
    /\ \E e \in TopLevel(tree) :
          IF ci THEN Lower(e.name) = Lower(name) ELSE e.name = name

\* a glob that ignores case on every platform
Glob_ignorecase(tree, plat, pat) ==
    {e \in TopLevel(tree) : FnMatch(pat, e.name, TRUE)}

\* self.source_dir.glob(pat): pathlib matches case-insensitively on Windows only
Glob(tree, plat, pat) ==
    {e \in TopLevel(tree) : FnMatch(pat, e.name, plat = "Windows")}

\* self.source_dir.rglob(pat): the entries of every depth whose name matches
RGlob(tree, plat, pat) ==
    {e \in tree.entries : FnMatch(pat, e.name, plat = "Windows")}

p_makefile_star == n_makefile \o << "*" >>

\* a detection that looks for the Makefile first
DetectBuildSystem_make_first(tree, ci, plat) ==
    IF Exists(tree, ci, n_Makefile) \/ Glob(tree, plat, p_makefile_star) # {}
    THEN MAKE
    ELSE IF Exists(tree, ci, n_CMakeLists) THEN CMAKE
    ELSE IF Exists(tree, ci, n_configure_ac) \/ Exists(tree, ci, n_configure)
         THEN AUTOTOOLS
    ELSE UNKNOWN

\* detect_build_system
DetectBuildSystem(tree, ci, plat) ==
    IF Exists(tree, ci, n_CMakeLists) THEN CMAKE
    ELSE IF Exists(tree, ci, n_configure_ac) \/ Exists(tree, ci, n_configure)
         THEN AUTOTOOLS
    ELSE IF Exists(tree, ci, n_Makefile) \/ Glob(tree, plat, p_makefile_star) # {}
         THEN MAKE
    ELSE UNKNOWN

\* os.access(file, os.X_OK) for the user who owns the checkout: the owner's
\* execute bit on POSIX, TRUE for every existing file on Windows
AccessX(e, plat) == plat = "Windows" \/ e.x

\* the extensions the fallback of build_make_project loops over
FallbackExts ==
    << << >>, << ".","e","x","e" >>, << ".","d","l","l" >>, << ".","s","o" >>,
       << ".","d","y","l","i","b" >> >>

\* the files the fallback loop copies: for each ext, each match of rglob('*'+ext)
\* that is a regular file and passes os.access(X_OK)
FallbackCopied(tree, plat) ==
    UNION { {e \in RGlob(tree, plat, << "*" >> \o FallbackExts[i]) :
                e.kind = "file" /\ AccessX(e, plat)}
            : i \in 1..Len(FallbackExts) }

\* shutil.copy2(file, self.output_dir): flat, by base name
CopiedNames(es) == {e.name : e \in es}

-----------------------------------------------------------------------------
(* WindowsTools *)

\* common_paths of find_msbuild, in the order they are tried
common_paths ==
    << "C:/Program Files/Microsoft Visual Studio/2022/Community/MSBuild.exe",
       "C:/Program Files/Microsoft Visual Studio/2022/BuildTools/MSBuild.exe",
       "C:/Program Files (x86)/Microsoft Visual Studio/2022/BuildTools/MSBuild.exe",
       "C:/Program Files (x86)/Microsoft Visual Studio/2019/BuildTools/MSBuild.exe",
       "C:/Program Files (x86)/Microsoft Visual Studio/2019/Community/MSBuild.exe" >>

\* how the vswhere run can end: it is run without check=True, so a non-zero
\* exit status is not an error and only its stdout is used
VswhereRuns ==
    { [raises |-> TRUE,  status |-> 1, stdout |-> ""],
      [raises |-> FALSE, status |-> 0, stdout |-> "VS"],
      [raises |-> FALSE, status |-> 0, stdout |-> ""],
      [raises |-> FALSE, status |-> 1, stdout |-> ""] }

\* the sets of common_paths indices that exist on the machine
CommonInstalls == { {}, {3, 5} }

\* get_vs_install_path
GetVsInstallPath(vswhereExists, run) ==
    IF ~vswhereExists THEN None
    ELSE IF run.raises THEN None
    ELSE run.stdout

\* find_msbuild
FindMsbuild(vs_path, vsMsbuildExists, existing) ==
    IF vs_path # None /\ vs_path # "" /\ vsMsbuildExists
    THEN vs_path \o "/MSBuild/Current/Bin/MSBuild.exe"
    ELSE IF existing # {}
         THEN common_paths[CHOOSE i \in existing : \A j \in existing : i <= j]
         ELSE None

-----------------------------------------------------------------------------
(* The program *)

\* the example URL of the usage message
ExampleUrl ==
    << "h","t","t","p","s",":","/","/","g","i","t","h","u","b",".","c","o","m",
       "/","u","s","e","r","n","a","m","e","/","p","r","o","j","e","c","t",
       ".","g","i","t" >>

\* the URLs a whole run is explored for
RunUrls == { ExampleUrl }

\* the pieces repository names are put together from
Chunks ==
    { << "a" >>, << "m","y" >>, s_dotgit, << "h","u","b" >>, << ".","i","o" >> }

\* the names of at most n chunks
RECURSIVE NamesUpTo(_)
NamesUpTo(n) ==
    IF n = 0 THEN { << >> }
    ELSE NamesUpTo(n - 1) \cup {c \o m : c \in Chunks, m \in NamesUpTo(n - 1)}

UrlPrefix ==
    << "h","t","t","p","s",":","/","/","g","i","t","h","u","b",".","c","o","m",
       "/","u","/" >>

\* the URLs the constructor is explored for: .../name and .../name.git
Urls == {UrlPrefix \o m : m \in NamesUpTo(MaxChunks) \ { << >> }}

Tools == {"git", "make", "cmake", "msbuild"}

\* the state when builder.py is started, before CProjectBuilder(...) runs
InitWith(urls) ==
    /\ pc = "init"
    /\ platform \in {"Windows", "Linux"}
    /\ fsCI \in BOOLEAN
    /\ platform = "Windows" => fsCI
    /\ github_url \in urls
    /\ branch \in {None, "main"}
    /\ project_name = << >>
    /\ source_dir = << >>
    /\ build_dir = << >>
    /\ output_dir = << >>
    /\ msbuild_path = None
    /\ build_system = None
    /\ missing_tools = << >>
    /\ probe = [t \in Tools |-> "unprobed"]
    /\ \E stale \in BOOLEAN :
         /\ srcTree = IF stale THEN Dir({}) ELSE NoDir
         /\ buildExists = stale
         /\ outFiles = IF stale THEN Dir({n_tool}) ELSE NoDir
    /\ origCwd \in {project_root, << "elsewhere" >>}
    /\ cwd = origCwd
    /\ driver = [kind |-> None, state |-> "none"]
    /\ steps = << >>
    /\ invoked = {}
    /\ failed = {}
    /\ exitStatus = << >>

Init == InitWith(RunUrls)

\* CProjectBuilder.__init__
CProjectBuilder_init ==
    /\ pc = "init"
    /\ project_name' = ProjectName(github_url)
    /\ source_dir' = ProjectDir("source", project_name')
    /\ build_dir' = ProjectDir("build", project_name')
    /\ output_dir' = ProjectDir("output", project_name')
    /\ msbuild_path' = None
    /\ build_system' = None
    /\ pc' = "check_git"
    /\ UNCHANGED << platform, fsCI, github_url, branch, missing_tools, probe,
                    srcTree, buildExists, outFiles, cwd, origCwd, driver,
                    steps, invoked, failed, exitStatus >>

\* what leaves the variables of the filesystem and of the builder alone
UnchangedConfig ==
    UNCHANGED << platform, fsCI, github_url, branch, project_name, source_dir,
                 build_dir, output_dir, origCwd >>

\* one try/except block of check_dependencies: the probe of `tool` ends as `o`.
\* SubprocessError and FileNotFoundError are caught and count the tool as
\* missing; any other exception leaves check_dependencies and run().
ProbeTool(tool, here, next, o) ==
    /\ pc = here
    /\ probe' = [probe EXCEPT ![tool] = o]
    /\ missing_tools' = IF o \in {"CalledProcessError", "FileNotFoundError"}
                        THEN Append(missing_tools, tool)
                        ELSE missing_tools
    /\ failed' = IF o = "ok" THEN failed ELSE failed \cup {tool \o " --version"}
    /\ pc' = IF o = "PermissionError" THEN "uncaught" ELSE next
    /\ UnchangedConfig
    /\ UNCHANGED << msbuild_path, build_system, srcTree, buildExists, outFiles,
                    cwd, driver, invoked, exitStatus >>

\* check_dependencies, "Check for Git" (first statement of run after the banner)
check_git ==
    /\ \E o \in RunOutcomes : ProbeTool("git", "check_git", "check_make", o)
    /\ steps' = Append(steps, "CheckDependencies")

\* check_dependencies, "Check for Make"
check_make ==
    /\ \E o \in RunOutcomes : ProbeTool("make", "check_make", "check_cmake", o)
    /\ UNCHANGED steps

\* check_dependencies, "Check for CMake"
check_cmake ==
    /\ \E o \in RunOutcomes : ProbeTool("cmake", "check_cmake", "check_msbuild", o)
    /\ UNCHANGED steps

\* check_dependencies, "Windows-specific checks", and its return
check_msbuild ==
    /\ pc = "check_msbuild"
    /\ IF platform = "Windows"
       THEN \E vswhereExists \in BOOLEAN, run \in VswhereRuns,
               vsMsbuildExists \in BOOLEAN, existing \in CommonInstalls :
              LET vs_path == GetVsInstallPath(vswhereExists, run)
                  found == FindMsbuild(vs_path, vsMsbuildExists, existing)
              IN /\ msbuild_path' = found
                 /\ probe' = [probe EXCEPT !["msbuild"] =
                                IF found = None THEN "not found" ELSE "ok"]
                 /\ missing_tools' = IF found = None
                                     THEN Append(missing_tools, "msbuild")
                                     ELSE missing_tools
                 /\ failed' = IF vswhereExists /\ (run.raises \/ run.status # 0)
                              THEN failed \cup {"vswhere"}
                              ELSE failed
       ELSE UNCHANGED << msbuild_path, probe, missing_tools, failed >>
    /\ pc' = "gate"
    /\ UnchangedConfig
    /\ UNCHANGED << build_system, srcTree, buildExists, outFiles, cwd, driver,
                    steps, invoked, exitStatus >>

\* run: an exception that left check_dependencies is outside the try block,
\* so the interpreter prints the traceback and exits with status 1
uncaught_exit ==
    /\ pc = "uncaught"
    /\ pc' = "Failed"
    /\ exitStatus' = << 1 >>
    /\ steps' = Append(steps, "Failed")
    /\ UnchangedConfig
    /\ UNCHANGED << msbuild_path, build_system, missing_tools, probe, srcTree,
                    buildExists, outFiles, cwd, driver, invoked, failed >>

\* a run that goes on to clean_directories whatever is missing
run_check_missing_ignored ==
    /\ pc = "gate"
    /\ pc' = "clean"
    /\ UnchangedConfig
    /\ UNCHANGED << msbuild_path, build_system, missing_tools, probe, srcTree,
                    buildExists, outFiles, cwd, driver, invoked, failed,
                    exitStatus, steps >>

\* run: "if missing: ... sys.exit(1)"
run_check_missing ==
    /\ pc = "gate"
    /\ IF missing_tools # << >>
       THEN /\ pc' = "Failed"
            /\ exitStatus' = << 1 >>
            /\ steps' = Append(steps, "Failed")
       ELSE /\ pc' = "clean"
            /\ UNCHANGED << exitStatus, steps >>
    /\ UnchangedConfig
    /\ UNCHANGED << msbuild_path, build_system, missing_tools, probe, srcTree,
                    buildExists, outFiles, cwd, driver, invoked, failed >>

-----------------------------------------------------------------------------
(* What a clone and a build can put on disk *)

\* the top-level names a cloned tree is drawn from
MarkerNames ==
    { n_CMakeLists, n_configure_ac, n_configure, n_Makefile, n_makefile,
      n_makefile_unix, n_MAKEFILE, n_Makefile_am, n_autogen, n_main_c }

\* a top-level file of the checkout; the scripts carry the execute bit
TopFile(name) ==
    [dir |-> "", name |-> name, kind |-> "file",
     x |-> name \in {n_configure, n_autogen}]

\* the trees a clone can produce: at most MaxTreeFiles of the names, and no two
\* names a case-insensitive filesystem would take for the same file
Trees(ci) ==
    { Dir({TopFile(n) : n \in S}) :
        S \in { T \in SUBSET MarkerNames :
                  /\ Cardinality(T) <= MaxTreeFiles
                  /\ ci => \A a, b \in T : Lower(a) = Lower(b) => a = b } }

\* what `make` can leave in the source tree: an executable, a shared library
\* with or without the execute bit, a text file, an object directory
Products ==
    { {},
      { [dir |-> "bin", name |-> n_tool, kind |-> "file", x |-> TRUE],
        [dir |-> "lib", name |-> n_libfoo_so, kind |-> "file", x |-> TRUE] },
      { [dir |-> "bin", name |-> n_tool, kind |-> "file", x |-> TRUE],
        [dir |-> "lib", name |-> n_libfoo_so, kind |-> "file", x |-> FALSE] },
      { [dir |-> "bin", name |-> n_tool, kind |-> "file", x |-> TRUE],
        [dir |-> "doc", name |-> n_notes_txt, kind |-> "file", x |-> FALSE],
        [dir |-> "", name |-> n_objs, kind |-> "dir", x |-> TRUE] } }

\* what an install step puts into the output directory
Installed(tree) == CopiedNames({e \in tree.entries : e.kind = "file" /\ e.dir # ""})

-----------------------------------------------------------------------------
(* run: clean, clone, detect *)

UnchangedDeps == UNCHANGED << msbuild_path, missing_tools, probe >>

\* clean_directories: for build_dir then output_dir, rmtree if it exists, then
\* mkdir; `failAt` is the filesystem call that raises, "none" when none does
clean_directories ==
    /\ pc = "clean"
    /\ steps' = Append(steps, "CleanDirectories")
    /\ \E failAt \in {"none", "rmtree build", "mkdir build", "rmtree output",
                      "mkdir output"} :
         /\ failAt = "rmtree build" => buildExists
         /\ failAt = "rmtree output" => outFiles.exists
         /\ LET b_rm == buildExists /\ failAt # "rmtree build"
                b_mk == failAt \notin {"rmtree build", "mkdir build"}
                o_rm == b_mk /\ outFiles.exists /\ failAt # "rmtree output"
                o_mk == b_mk /\ failAt \notin {"rmtree output", "mkdir output"}
            IN /\ buildExists' = IF b_mk THEN TRUE
                                 ELSE IF b_rm THEN FALSE ELSE buildExists
               /\ outFiles' = IF o_mk THEN Dir({})
                              ELSE IF o_rm THEN NoDir ELSE outFiles
               /\ invoked' = invoked \cup {"clean_directories"}
                    \cup (IF b_rm THEN {"rmtree build"} ELSE {})
                    \cup (IF b_mk THEN {"mkdir build"} ELSE {})
                    \cup (IF o_rm THEN {"rmtree output"} ELSE {})
                    \cup (IF o_mk THEN {"mkdir output"} ELSE {})
               /\ pc' = IF failAt = "none" THEN "clone" ELSE "raised"
    /\ UnchangedConfig
    /\ UnchangedDeps
    /\ UNCHANGED << build_system, srcTree, cwd, driver, failed, exitStatus >>

\* the git clone command: "--branch <branch>" is added when a branch is given
CloneCmd(br) == IF br # None THEN "git clone --branch " \o br ELSE "git clone"

\* clone_repository up to and including `git clone`: rmtree of a stale
\* checkout, then the checked clone; a failed clone may leave a partial checkout
clone_repository ==
    /\ pc = "clone"
    /\ steps' = Append(steps, "FetchRepository")
    /\ \E rmFails \in BOOLEAN, o \in RunOutcomes, tree \in Trees(fsCI),
          partial \in BOOLEAN :
         /\ rmFails => srcTree.exists
         /\ IF rmFails
            THEN /\ invoked' = invoked \cup {"clone_repository"}
                 /\ UNCHANGED << srcTree, failed >>
                 /\ pc' = "raised"
            ELSE /\ invoked' = invoked \cup {"clone_repository", "run " \o CloneCmd(branch)}
                       \cup (IF srcTree.exists THEN {"rmtree source"} ELSE {})
                 /\ srcTree' = IF o = "ok" THEN tree
                               ELSE IF partial THEN Dir({}) ELSE NoDir
                 /\ failed' = IF o = "ok" THEN failed
                              ELSE failed \cup {"git clone"}
                 /\ pc' = IF o = "ok" THEN "submodule" ELSE "raised"
    /\ UnchangedConfig
    /\ UnchangedDeps
    /\ UNCHANGED << build_system, buildExists, outFiles, cwd, driver, exitStatus >>

\* clone_repository, `git submodule update --init --recursive` in source_dir
submodule_update ==
    /\ pc = "submodule"
    /\ \E o \in RunOutcomes :
         /\ failed' = IF o = "ok" THEN failed
                      ELSE failed \cup {"git submodule update"}
         /\ pc' = IF o = "ok" THEN "detect" ELSE "raised"
    /\ invoked' = invoked \cup {"run git submodule update"}
    /\ UnchangedConfig
    /\ UnchangedDeps
    /\ UNCHANGED << build_system, srcTree, buildExists, outFiles, cwd, driver,
                    steps, exitStatus >>

\* build_project, first statement: self.build_system = self.detect_build_system()
detect_build_system ==
    /\ pc = "detect"
    /\ build_system' = DetectBuildSystem(srcTree, fsCI, platform)
    /\ steps' = Append(steps, "DetectBuildSystem")
    /\ invoked' = invoked \cup {"build_project", "detect_build_system"}
    /\ pc' = "dispatch"
    /\ UnchangedConfig
    /\ UnchangedDeps
    /\ UNCHANGED << srcTree, buildExists, outFiles, cwd, driver, failed,
                    exitStatus >>

\* a chain whose last branch is the Make driver instead of the raise
DriverFor_else_make(bs) ==
    IF bs = CMAKE THEN CMAKE
    ELSE IF bs = AUTOTOOLS THEN AUTOTOOLS
    ELSE MAKE

\* build_project, the if/elif chain: the driver a build system is handed to,
\* None for the raise of "No supported build system detected"
DriverFor(bs) ==
    IF bs = CMAKE THEN CMAKE
    ELSE IF bs = AUTOTOOLS THEN AUTOTOOLS
    ELSE IF bs = MAKE THEN MAKE
    ELSE None

\* where each driver starts
DriverEntry(kind) ==
    IF kind = CMAKE THEN "cmake_configure"
    ELSE IF kind = AUTOTOOLS THEN "autotools_autogen"
    ELSE "make_configure"

\* build_project, the dispatch on self.build_system
build_project ==
    /\ pc = "dispatch"
    /\ LET kind == DriverFor(build_system)
       IN IF kind = None
          THEN /\ pc' = "raised"
               /\ UNCHANGED << driver, steps, invoked >>
          ELSE /\ pc' = DriverEntry(kind)
               /\ driver' = [kind |-> kind, state |-> "running"]
               /\ steps' = Append(steps, "RunDriver")
               /\ invoked' = invoked \cup {"build_" \o kind \o "_project"}
    /\ UnchangedConfig
    /\ UnchangedDeps
    /\ UNCHANGED << build_system, srcTree, buildExists, outFiles, cwd, failed,
                    exitStatus >>

-----------------------------------------------------------------------------
(* The build drivers *)

\* subprocess.run(cmd, check=True) inside a driver, ending as `o`: the command
\* is recorded as started, and as failed unless it ended ok
RunChecked(cmd, o) ==
    /\ invoked' = invoked \cup {"run " \o cmd}
    /\ failed' = IF o = "ok" THEN failed ELSE failed \cup {cmd}

\* a command run without check=True: its failure is not noticed
AfterRun_unchecked(kind, o, next) ==
    /\ pc' = next
    /\ driver' = [kind |-> kind, state |-> "running"]

\* control after a checked command of driver `kind`: on to `next`, or the
\* exception leaves the driver
AfterRun(kind, o, next) ==
    /\ pc' = IF o = "ok" THEN next ELSE "raised"
    /\ driver' = [kind |-> kind,
                  state |-> IF o = "ok" THEN "running" ELSE "raised"]

\* build_cmake_project, "Running CMake configuration"
cmake_configure ==
    /\ pc = "cmake_configure"
    /\ \E o \in RunOutcomes :
         /\ RunChecked("cmake -S -B", o)
         /\ AfterRun(CMAKE, o, "cmake_build")
    /\ UnchangedConfig
    /\ UnchangedDeps
    /\ UNCHANGED << build_system, srcTree, buildExists, outFiles, cwd, steps,
                    exitStatus >>

\* the build command of build_cmake_project
CMakeBuildCmd(plat, msbuild) ==
    IF plat = "Windows" THEN msbuild \o " ALL_BUILD.vcxproj"
    ELSE "cmake --build"

\* build_cmake_project, "Building project"
cmake_build ==
    /\ pc = "cmake_build"
    /\ \E o \in RunOutcomes :
         /\ RunChecked(CMakeBuildCmd(platform, msbuild_path), o)
         /\ AfterRun(CMAKE, o, "cmake_install")
    /\ UnchangedConfig
    /\ UnchangedDeps
    /\ UNCHANGED << build_system, srcTree, buildExists, outFiles, cwd, steps,
                    exitStatus >>

\* build_cmake_project, "Installing to output directory", and its return
cmake_install ==
    /\ pc = "cmake_install"
    /\ \E o \in RunOutcomes :
         /\ RunChecked("cmake --install", o)
         /\ pc' = IF o = "ok" THEN "built" ELSE "raised"
         /\ driver' = [kind |-> CMAKE,
                       state |-> IF o = "ok" THEN "returned" ELSE "raised"]
         /\ outFiles' = IF o = "ok" THEN Dir(outFiles.entries \cup {n_tool})
                        ELSE outFiles
    /\ UnchangedConfig
    /\ UnchangedDeps
    /\ UNCHANGED << build_system, srcTree, buildExists, cwd, steps, exitStatus >>

\* build_autotools_project: os.chdir(source_dir), then autogen.sh if it exists;
\* a successful autogen.sh may generate configure
autotools_autogen ==
    /\ pc = "autotools_autogen"
    /\ cwd' = source_dir
    /\ IF Exists(srcTree, fsCI, n_autogen)
       THEN \E o \in RunOutcomes, gen \in BOOLEAN :
              /\ RunChecked("./autogen.sh", o)
              /\ AfterRun(AUTOTOOLS, o, "autotools_configure")
              /\ srcTree' = IF o = "ok" /\ gen /\ ~Exists(srcTree, fsCI, n_configure)
                            THEN Dir(srcTree.entries \cup {TopFile(n_configure)})
                            ELSE srcTree
       ELSE /\ pc' = "autotools_configure"
            /\ UNCHANGED << invoked, failed, driver, srcTree >>
    /\ UnchangedConfig
    /\ UnchangedDeps
    /\ UNCHANGED << build_system, buildExists, outFiles, steps, exitStatus >>

\* build_autotools_project, "Run configure if it exists or was generated"
autotools_configure ==
    /\ pc = "autotools_configure"
    /\ IF Exists(srcTree, fsCI, n_configure)
       THEN \E o \in RunOutcomes :
              /\ RunChecked("./configure --prefix --enable-shared", o)
              /\ AfterRun(AUTOTOOLS, o, "autotools_make")
       ELSE /\ pc' = "autotools_make"
            /\ UNCHANGED << invoked, failed, driver >>
    /\ UnchangedConfig
    /\ UnchangedDeps
    /\ UNCHANGED << build_system, srcTree, buildExists, outFiles, cwd, steps,
                    exitStatus >>

\* `make -j` in the source directory, for driver `kind`
MakeJ(kind, next) ==
    /\ \E o \in RunOutcomes, made \in Products :
         /\ RunChecked("make -j", o)
         /\ AfterRun(kind, o, next)
         /\ srcTree' = IF o = "ok" THEN Dir(srcTree.entries \cup made)
                       ELSE srcTree
    /\ UnchangedConfig
    /\ UnchangedDeps
    /\ UNCHANGED << build_system, buildExists, outFiles, cwd, steps, exitStatus >>

\* build_autotools_project, "Running make"
autotools_make ==
    /\ pc = "autotools_make"
    /\ MakeJ(AUTOTOOLS, "autotools_install")

\* build_autotools_project, "Running make install", then os.chdir(project_root)
autotools_install ==
    /\ pc = "autotools_install"
    /\ \E o \in RunOutcomes :
         /\ RunChecked("make install", o)
         /\ pc' = IF o = "ok" THEN "built" ELSE "raised"
         /\ driver' = [kind |-> AUTOTOOLS,
                       state |-> IF o = "ok" THEN "returned" ELSE "raised"]
         /\ outFiles' = IF o = "ok"
                        THEN Dir(outFiles.entries \cup Installed(srcTree))
                        ELSE outFiles
         /\ cwd' = IF o = "ok" THEN project_root ELSE cwd
    /\ UnchangedConfig
    /\ UnchangedDeps
    /\ UNCHANGED << build_system, srcTree, buildExists, steps, exitStatus >>

\* build_make_project: os.chdir(source_dir), then configure if it exists
make_configure ==
    /\ pc = "make_configure"
    /\ cwd' = source_dir
    /\ IF Exists(srcTree, fsCI, n_configure)
       THEN \E o \in RunOutcomes :
              /\ RunChecked("./configure --prefix", o)
              /\ AfterRun(MAKE, o, "make_make")
       ELSE /\ pc' = "make_make"
            /\ UNCHANGED << invoked, failed, driver >>
    /\ UnchangedConfig
    /\ UnchangedDeps
    /\ UNCHANGED << build_system, srcTree, buildExists, outFiles, steps,
                    exitStatus >>

\* build_make_project, "Running make"
make_make ==
    /\ pc = "make_make"
    /\ MakeJ(MAKE, "make_install")

\* where build_make_project goes after `make install` ended as `o`: only
\* CalledProcessError is caught and leads to the fallback
AfterMakeInstall(o) ==
    IF o = "ok" THEN "built"
    ELSE IF o = "CalledProcessError" THEN "make_fallback"
    ELSE "raised"

\* build_make_project, "Try make install if prefix was set"; on success the
\* driver returns through os.chdir(project_root)
make_install ==
    /\ pc = "make_install"
    /\ \E o \in RunOutcomes :
         /\ RunChecked("make install", o)
         /\ pc' = AfterMakeInstall(o)
         /\ driver' = [kind |-> MAKE,
                       state |-> IF pc' = "built" THEN "returned"
                                 ELSE IF pc' = "raised" THEN "raised"
                                 ELSE "running"]
         /\ outFiles' = IF o = "ok"
                        THEN Dir(outFiles.entries \cup Installed(srcTree))
                        ELSE outFiles
         /\ cwd' = IF o = "ok" THEN project_root ELSE cwd
    /\ UnchangedConfig
    /\ UnchangedDeps
    /\ UNCHANGED << build_system, srcTree, buildExists, steps, exitStatus >>

\* build_make_project, the except branch: mkdir of output_dir, the copy loop,
\* then os.chdir(project_root); a filesystem error of the loop leaves the driver
make_fallback ==
    /\ pc = "make_fallback"
    /\ \E copyFails \in BOOLEAN :
         IF copyFails
         THEN /\ outFiles' = Dir(outFiles.entries)
              /\ pc' = "raised"
              /\ driver' = [kind |-> MAKE, state |-> "raised"]
              /\ UNCHANGED cwd
         ELSE /\ outFiles' = Dir(outFiles.entries
                    \cup CopiedNames(FallbackCopied(srcTree, platform)))
              /\ pc' = "built"
              /\ driver' = [kind |-> MAKE, state |-> "returned"]
              /\ cwd' = project_root
    /\ invoked' = invoked \cup {"fallback copy"}
    /\ UnchangedConfig
    /\ UnchangedDeps
    /\ UNCHANGED << build_system, srcTree, buildExists, steps, failed,
                    exitStatus >>

-----------------------------------------------------------------------------
(* run: the two ends *)

\* the exit status of the except branch of run: sys.exit(1)
ErrorExitStatus == << 1 >>

\* run, end of the try block: the success messages, then the script ends
run_success ==
    /\ pc = "built"
    /\ pc' = "Done"
    /\ steps' = Append(steps, "Done")
    /\ exitStatus' = << 0 >>
    /\ UnchangedConfig
    /\ UnchangedDeps
    /\ UNCHANGED << build_system, srcTree, buildExists, outFiles, cwd, driver,
                    invoked, failed >>

\* an except branch that starts the run over instead of exiting
run_except_retry ==
    /\ pc = "raised"
    /\ pc' = "clean"
    /\ UnchangedConfig
    /\ UnchangedDeps
    /\ UNCHANGED << build_system, srcTree, buildExists, outFiles, cwd, driver,
                    invoked, failed, steps, exitStatus >>

\* run, "except Exception as e": the troubleshooting tips, then sys.exit(1)
run_except ==
    /\ pc = "raised"
    /\ pc' = "Failed"
    /\ steps' = Append(steps, "Failed")
    /\ exitStatus' = ErrorExitStatus
    /\ UnchangedConfig
    /\ UnchangedDeps
    /\ UNCHANGED << build_system, srcTree, buildExists, outFiles, cwd, driver,
                    invoked, failed >>

Next ==
    \/ CProjectBuilder_init
    \/ check_git
    \/ check_make
    \/ check_cmake
    \/ check_msbuild
    \/ uncaught_exit
    \/ run_check_missing
    \/ clean_directories
    \/ clone_repository
    \/ submodule_update
    \/ detect_build_system
    \/ build_project
    \/ cmake_configure
    \/ cmake_build
    \/ cmake_install
    \/ autotools_autogen
    \/ autotools_configure
    \/ autotools_make
    \/ autotools_install
    \/ make_configure
    \/ make_make
    \/ make_install
    \/ make_fallback
    \/ run_success
    \/ run_except

Spec == Init /\ [][Next]_vars

\* the constructor alone, over every URL of Urls
InitName == InitWith(Urls)
NextName == CProjectBuilder_init
SpecName == InitName /\ [][NextName]_vars

-----------------------------------------------------------------------------
(* Vocabulary of the properties, stated on the state alone *)

StepOrder ==
    << "CheckDependencies", "CleanDirectories", "FetchRepository",
       "DetectBuildSystem", "RunDriver", "Done" >>

IsPrefix(s, t) == Len(s) <= Len(t) /\ SubSeq(t, 1, Len(s)) = s

Range(f) == {f[i] : i \in DOMAIN f}

Exited == exitStatus # << >>

\* the commands of the three build drivers
DriverRuns ==
    { "build_cmake_project", "build_autotools_project", "build_make_project",
      "run cmake -S -B", "run cmake --build", "run cmake --install",
      "run ./autogen.sh", "run ./configure --prefix --enable-shared",
      "run ./configure --prefix", "run make -j", "run make install",
      "fallback copy" }

\* a top-level entry of the source directory answers to the name n
HasFile(n) ==
    \E e \in srcTree.entries :
       /\ e.dir = ""
       /\ \/ e.name = n
          \/ fsCI /\ Len(e.name) = Len(n)
                  /\ \A i \in 1..Len(n) : LowerChar(e.name[i]) = LowerChar(n[i])

\* the name begins with "makefile"; fold says whether case is ignored
BeginsMakefile(name, fold) ==
    /\ Len(name) >= Len(n_makefile)
    /\ \A i \in 1..Len(n_makefile) :
          IF fold THEN LowerChar(name[i]) = n_makefile[i]
          ELSE name[i] = n_makefile[i]

TopNames == {e.name : e \in {t \in srcTree.entries : t.dir = ""}}

\* detection has just returned
Detected == pc = "dispatch"

-----------------------------------------------------------------------------
(* C1 *)

\* C1: once a tool is found missing, nothing is cleaned, cloned, detected or
\* built at any point of the run, and when check_dependencies is over the
\* process has exited with status 1.
C1_MissingToolAbortsBeforeSideEffects ==
    missing_tools # << >> =>
       /\ invoked = {}
       /\ steps \in { << "CheckDependencies" >>,
                      << "CheckDependencies", "Failed" >> }
       /\ pc \notin {"check_make", "check_cmake", "check_msbuild", "gate",
                     "uncaught"}
            => pc = "Failed" /\ exitStatus = << 1 >>

C1_Witness ==
    /\ pc = "Failed"
    /\ probe["git"] = "ok"
    /\ Range(missing_tools) = {"cmake"}
    /\ exitStatus = << 1 >>

-----------------------------------------------------------------------------
(* C2 *)

\* C2 as stated: a run ends with 0 exactly on full success, and with 1 after
\* any missing dependency, detection failure or failed external command.
C2_ExitStatusAsStated ==
    Exited =>
       /\ exitStatus = << 0 >> <=> pc = "Done"
       /\ (missing_tools # << >> \/ build_system = UNKNOWN \/ failed # {})
            => exitStatus = << 1 >>

\* the failures the code does not turn into a fatal error: the exit status of
\* vswhere is not checked, and the Make driver catches a failed `make install`
Tolerated ==
    {"vswhere"} \cup (IF driver.kind = MAKE THEN {"make install"} ELSE {})

\* C2, amended: a run ends with 0 exactly when it reaches Done, and with 1
\* after any missing dependency, detection failure, or failure of an external
\* command other than vswhere and the Make driver's `make install`.
C2_ExitStatus ==
    Exited =>
       /\ exitStatus \in { << 0 >>, << 1 >> }
       /\ exitStatus = << 0 >> <=> steps = StepOrder
       /\ (missing_tools # << >> \/ build_system = UNKNOWN
             \/ failed \ Tolerated # {})
            => exitStatus = << 1 >>

C2_Witness ==
    /\ Exited
    /\ driver.kind = MAKE
    /\ "make -j" \in failed
    /\ exitStatus = << 1 >>

-----------------------------------------------------------------------------
(* C3 *)

\* the steps so far are a run of StepOrder from its start, closed by Failed
\* when the run failed
StepsInOrder ==
    \/ IsPrefix(steps, StepOrder)
    \/ /\ Len(steps) >= 2
       /\ steps[Len(steps)] = "Failed"
       /\ IsPrefix(SubSeq(steps, 1, Len(steps) - 1), SubSeq(StepOrder, 1, 5))

\* C3: the steps run in the order of StepOrder, each at most once; after a
\* failure the only step that follows is Failed; after Done or Failed none does.
C3_StrictStepOrder ==
    /\ [] StepsInOrder
    /\ [][ /\ pc \in {"raised", "uncaught"} => steps' = Append(steps, "Failed")
           /\ pc \in {"Done", "Failed"} => steps' = steps
           /\ Exited <=> pc \in {"Done", "Failed"} ]_vars

C3_Witness ==
    /\ steps = StepOrder
    /\ pc = "Done"

-----------------------------------------------------------------------------
(* C4 *)

\* C4 as stated: CMake if CMakeLists.txt is present, else Autotools if
\* configure.ac or configure is, else Make if Makefile is, else Unknown.
C4_PrecedenceAsStated ==
    Detected =>
       build_system =
          IF HasFile(n_CMakeLists) THEN CMAKE
          ELSE IF HasFile(n_configure_ac) \/ HasFile(n_configure) THEN AUTOTOOLS
          ELSE IF HasFile(n_Makefile) THEN MAKE
          ELSE UNKNOWN

\* C4, amended: the same precedence, where the Make case also holds when a
\* top-level name matches the glob makefile* and Unknown is what is left.
C4_Precedence ==
    Detected =>
       build_system =
          IF HasFile(n_CMakeLists) THEN CMAKE
          ELSE IF HasFile(n_configure_ac) \/ HasFile(n_configure) THEN AUTOTOOLS
          ELSE IF \/ HasFile(n_Makefile)
                  \/ \E n \in TopNames : BeginsMakefile(n, platform = "Windows")
               THEN MAKE
          ELSE UNKNOWN

C4_Witness ==
    /\ Detected
    /\ TopNames = {n_CMakeLists, n_configure, n_Makefile}
    /\ build_system = CMAKE

-----------------------------------------------------------------------------
(* C10 *)

NoHigherMarker ==
    ~HasFile(n_CMakeLists) /\ ~HasFile(n_configure_ac) /\ ~HasFile(n_configure)

\* C10 as stated: without the higher markers, Make for any top-level name that
\* matches makefile* with case ignored, Unknown only when there is none.
C10_MakefileGlobAsStated ==
    Detected /\ NoHigherMarker =>
       build_system =
          IF \E n \in TopNames : BeginsMakefile(n, TRUE) THEN MAKE ELSE UNKNOWN

\* C10, amended: without the higher markers, Make exactly when Makefile exists
\* or a top-level name matches makefile* by the platform's rule (case kept on
\* POSIX, ignored on Windows): makefile and makefile.unix always count;
\* MAKEFILE and Makefile.am alone give Unknown on a case-sensitive POSIX tree.
C10_MakefileGlob ==
    Detected /\ NoHigherMarker =>
       /\ build_system \in {MAKE, UNKNOWN}
       /\ build_system = MAKE <=>
            \/ HasFile(n_Makefile)
            \/ \E n \in TopNames : BeginsMakefile(n, platform = "Windows")
       /\ (n_makefile \in TopNames \/ n_makefile_unix \in TopNames)
            => build_system = MAKE
       /\ (platform # "Windows" /\ ~fsCI /\ TopNames # {}
             /\ TopNames \subseteq {n_MAKEFILE, n_Makefile_am, n_main_c})
            => build_system = UNKNOWN
       /\ (platform = "Windows" /\ TopNames \cap {n_MAKEFILE, n_Makefile_am} # {})
            => build_system = MAKE

C10_Witness ==
    /\ Detected
    /\ platform = "Linux"
    /\ ~fsCI
    /\ TopNames = {n_MAKEFILE, n_Makefile_am}
    /\ build_system = UNKNOWN

-----------------------------------------------------------------------------
(* C5 *)

\* C5: a tree without any marker file is detected as Unknown; after Unknown no
\* build driver is entered and none of their commands is started, the checkout
\* stays on disk, and the run ends with status 1.
C5_UnknownIsFatalWithoutDriver ==
    /\ (pc \in {"dispatch"} /\ TopNames \subseteq {n_main_c, n_autogen})
         => build_system = UNKNOWN
    /\ build_system = UNKNOWN =>
         /\ pc \in {"dispatch", "raised", "Failed"}
         /\ driver.kind = None
         /\ invoked \cap DriverRuns = {}
         /\ "RunDriver" \notin Range(steps)
         /\ srcTree.exists
         /\ exitStatus # << 0 >>
         /\ pc = "Failed" => exitStatus = << 1 >>

C5_Witness ==
    /\ pc = "Failed"
    /\ build_system = UNKNOWN
    /\ TopNames = {n_main_c}
    /\ srcTree.exists
    /\ exitStatus = << 1 >>

-----------------------------------------------------------------------------
(* C6 *)

\* the name ends in one of .exe, .dll, .so, .dylib
HasBinaryExtension(name) ==
    \E i \in 2..Len(FallbackExts) :
       /\ Len(name) >= Len(FallbackExts[i])
       /\ SubSeq(name, Len(name) - Len(FallbackExts[i]) + 1, Len(name))
            = FallbackExts[i]

FallbackReturned ==
    /\ "fallback copy" \in invoked
    /\ driver = [kind |-> MAKE, state |-> "returned"]

\* C6: after a failed `make install` the Make driver returns normally, and every
\* regular file of the source tree that is executable by its owner or ends in
\* .exe, .dll, .so or .dylib is in the output directory (the files without any
\* extension, which the claim names too, are left out of the statement).
C6_FallbackCopiesExecutablesAndLibraries ==
    /\ (pc = "make_fallback" => "make install" \in failed /\ ~Exited)
    /\ FallbackReturned =>
         /\ exitStatus # << 1 >>
         /\ \A e \in srcTree.entries :
               (e.kind = "file" /\ (e.x \/ HasBinaryExtension(e.name)))
                  => e.name \in outFiles.entries

-----------------------------------------------------------------------------
(* C7 *)

\* C7: when the Autotools or the Make driver has ended, by return or by an
\* error, the working directory is the one the process had when it was entered.
C7_WorkingDirectoryRestored ==
    (driver.kind \in {AUTOTOOLS, MAKE} /\ driver.state \in {"returned", "raised"})
       => cwd = origCwd

-----------------------------------------------------------------------------
(* C8 *)

\* the segment without a trailing ".git", every other character kept
StripTrailingDotGit(seg) ==
    IF /\ Len(seg) >= Len(s_dotgit)
       /\ SubSeq(seg, Len(seg) - Len(s_dotgit) + 1, Len(seg)) = s_dotgit
    THEN SubSeq(seg, 1, Len(seg) - Len(s_dotgit))
    ELSE seg

\* C8: the project name is the final segment of the URL with only a trailing
\* ".git" removed, and the three directories are source/, build/ and output/
\* followed by that name.
C8_ProjectNameStripsTrailingDotGit ==
    pc # "init" =>
       LET name == StripTrailingDotGit(LastSegment(github_url))
       IN /\ project_name = name
          /\ source_dir = project_root \o << "source", name >>
          /\ build_dir = project_root \o << "build", name >>
          /\ output_dir = project_root \o << "output", name >>

-----------------------------------------------------------------------------
(* C9 *)

\* check_dependencies is over: it returned, or an exception left it
CheckEnded ==
    pc \notin {"init", "check_git", "check_make", "check_cmake", "check_msbuild"}

\* C9: when check_dependencies is over, git, make and cmake (and msbuild on
\* Windows) have all been probed, and the tools it counts as missing are
\* exactly those whose probe failed.
C9_MissingIsExactlyTheFailedProbes ==
    CheckEnded =>
       /\ \A t \in {"git", "make", "cmake"} : probe[t] # "unprobed"
       /\ platform = "Windows" => probe["msbuild"] # "unprobed"
       /\ \A t \in Tools :
             t \in Range(missing_tools) <=> probe[t] \notin {"ok", "unprobed"}
       /\ missing_tools = << >> <=> \A t \in Tools : probe[t] \in {"ok", "unprobed"}

=============================================================================
